---- MODULE Spec2Model ----
(***************************************************************************)
(* Model of the FastAPI/Lambda boilerplate service: module import and      *)
(* application construction (app/main.py, app/api/routes.py), the two      *)
(* endpoints (app/api/hello/router.py, app/api/health/router.py) and the   *)
(* greeting rule (app/api/hello/service.py).                               *)
(*                                                                         *)
(* Text is modelled as a sequence of one-character strings, so that        *)
(* formatting is concatenation and emptiness is length zero.  An optional  *)
(* text (Python Optional[str]) is a record [some, val].                    *)
(***************************************************************************)
EXTENDS Integers, Sequences, FiniteSets, TLC

VARIABLES
    pc,             \* position in the import of app/main.py, then "serving"
    health_router,  \* routes of app.api.health.router.router
    hello_router,   \* routes of app.api.hello.router.router
    router,         \* routes of app.api.routes.router
    app,            \* the FastAPI application object of app/main.py
    handler,        \* the Mangum adapter of app/main.py
    stage,          \* per in-flight slot: "idle", "received", "responded"
    req,            \* per slot: the request being handled
    resp,           \* per slot: the response produced for it
    arg,            \* GreetSpec: the argument of generate_greeting
    ret,            \* GreetSpec: the value it returned
    called          \* GreetSpec: whether ret is the result for arg

vars == <<pc, health_router, hello_router, router, app, handler,
          stage, req, resp, arg, ret, called>>
confVars == <<health_router, hello_router, router, app, handler>>
slotVars == <<stage, req, resp>>
greetVars == <<arg, ret, called>>

\* ---------------------------------------------------------------- bounds
\* longest name handed to generate_greeting in GreetSpec
MaxNameLen == 4
\* longest value of the query parameter name in a request
MaxQueryLen == 1
\* number of requests that can be in flight at once
NumSlots == 2

\* characters of an argument of generate_greeting: a letter, whitespace,
\* punctuation
Chars == {"A", " ", "!"}

\* characters of a query parameter: a letter and whitespace
QueryChars == {"A", " "}

RECURSIVE Texts(_, _)
\* every text over chars of length at most n
Texts(chars, n) ==
    IF n = 0 THEN {<<>>}
    ELSE LET shorter == Texts(chars, n - 1)
         IN  shorter \cup {Append(t, c) : t \in shorter, c \in chars}

\* ------------------------------------------------------- optional values
None == [some |-> FALSE, val |-> <<>>]
Some(t) == [some |-> TRUE, val |-> t]
OptTexts(chars, n) == {None} \cup {Some(t) : t \in Texts(chars, n)}

\* Python truthiness of an Optional[str]: None and "" are falsy, every
\* other string (whitespace included) is truthy.
Truthy(name) == name.some /\ Len(name.val) > 0

\* ---------------------------------------------------------- greeting rule
HelloPrefix == <<"H", "e", "l", "l", "o", " ">>
Bang == <<"!">>
HelloWorld == <<"H", "e", "l", "l", "o", " ", "W", "o", "r", "l", "d", "!">>

IsBlank(t) == \A k \in 1..Len(t) : t[k] = " "

\* mutant: tests the stripped name, so a whitespace-only name counts as empty
generate_greeting_strip(name) ==
    IF name.some /\ ~IsBlank(name.val)
    THEN HelloPrefix \o name.val \o Bang
    ELSE HelloWorld

\* mutant: tests `name is not None`, so the empty name is formatted
generate_greeting_notnone(name) ==
    IF name.some
    THEN HelloPrefix \o name.val \o Bang
    ELSE HelloWorld

\* mutant: the f-string lost its prefix and its exclamation mark
generate_greeting_bare(name) ==
    IF Truthy(name)
    THEN name.val
    ELSE HelloWorld

generate_greeting(name) ==
    IF Truthy(name)
    THEN HelloPrefix \o name.val \o Bang
    ELSE HelloWorld

\* ------------------------------------------------------- response schemas
HelloResponse(message) == [message |-> message]
HealthResponse(status) == [status |-> status]

\* ------------------------------------------------------------- requests
Slots == 1..NumSlots

\* paths are sequences of segments: "/api/hello" is <<"api", "hello">>
ApiPrefix == <<"api">>
HelloPath == <<"hello">>
HealthPath == <<"health">>

QueryNames == OptTexts(QueryChars, MaxQueryLen)

Request(method, path, name) == [method |-> method, path |-> path, name |-> name]
NoRequest == Request("-", <<>>, None)

\* what a client can send: GET on either endpoint with any name, and a few
\* requests the routing table does not serve (other method, other path)
Requests ==
    {Request("GET", ApiPrefix \o p, n) : p \in {HelloPath, HealthPath}, n \in QueryNames}
    \cup {Request("POST", ApiPrefix \o p, None) : p \in {HelloPath, HealthPath}}
    \cup {Request("GET", HelloPath, None), Request("GET", ApiPrefix, None)}

Response(status, body) == [status |-> status, body |-> body]
NoResponse == Response(0, [none |-> TRUE])
NotFound == Response(404, [detail |-> "Not Found"])
MethodNotAllowed == Response(405, [detail |-> "Method Not Allowed"])

\* ---------------------------------------------------------------- routers
\* APIRouter(): a router with no routes
APIRouter == <<>>

\* @router.get(path): registers endpoint for GET on path
get(rtr, path, endpoint) ==
    Append(rtr, [path |-> path, methods |-> {"GET"}, endpoint |-> endpoint])

\* mutant: the prefix is dropped when routes are copied
include_router_noprefix(target, source, prefix) ==
    target \o source

\* target.include_router(source, prefix): source's routes, in order, are
\* appended to target's with the prefix put before each path
include_router(target, source, prefix) ==
    target \o [k \in 1..Len(source) |-> [source[k] EXCEPT !.path = prefix \o @]]

FastAPI(title, description, version) ==
    [title |-> title, description |-> description, version |-> version,
     routes |-> <<>>]
NoApp == FastAPI("", "", "")

\* ---------------------------------------------------------------- handlers
\* mutant: the handler forgets to pass the query parameter on
hello_ignores(name) ==
    HelloResponse(generate_greeting(None))

\* mutant: the handler reads the name from a shared "current request"
hello_shared(name) ==
    HelloResponse(generate_greeting(req[1].name))

hello(name) ==
    HelloResponse(generate_greeting(name))

\* mutant: another status constant
health_ok ==
    HealthResponse("ok")

health ==
    HealthResponse("healthy")

\* the endpoint function run on a request; a returned model is sent with 200
call_endpoint(endpoint, r) ==
    IF endpoint = "hello"
    THEN Response(200, hello(r.name))
    ELSE Response(200, health)

\* indices of the routes whose path and method match, and whose path matches
FullMatches(routes, r) ==
    {k \in 1..Len(routes) : routes[k].path = r.path /\ r.method \in routes[k].methods}
PartialMatches(routes, r) ==
    {k \in 1..Len(routes) : routes[k].path = r.path}
First(S) == CHOOSE k \in S : \A m \in S : k <= m

\* the endpoint a request is dispatched to: the first route in list order
\* that matches fully; "405" if only the path matches, "404" if nothing does
dispatch(routes, r) ==
    IF FullMatches(routes, r) # {} THEN routes[First(FullMatches(routes, r))].endpoint
    ELSE IF PartialMatches(routes, r) # {} THEN "405"
    ELSE "404"

\* the application called on one request
asgi_call(a, r) ==
    LET target == dispatch(a.routes, r)
    IN  IF target = "404" THEN NotFound
        ELSE IF target = "405" THEN MethodNotAllowed
        ELSE call_endpoint(target, r)

\* ------------------------------------------------------- process start-up
\* The import of app/main.py, statement by statement, in Python's order:
\* main.py imports app.api.routes, which imports the two endpoint modules,
\* builds the aggregated router, and then main.py builds the application.

\* app/api/health/router.py: router = APIRouter(...); @router.get("/health")
ImportHealth ==
    /\ pc = "import_health"
    /\ health_router' = get(APIRouter, HealthPath, "health")
    /\ pc' = "import_hello"
    /\ UNCHANGED <<hello_router, router, app, handler, slotVars, greetVars>>

\* app/api/hello/router.py: router = APIRouter(...); @router.get("/hello")
ImportHello ==
    /\ pc = "import_hello"
    /\ hello_router' = get(APIRouter, HelloPath, "hello")
    /\ pc' = "create_router"
    /\ UNCHANGED <<health_router, router, app, handler, slotVars, greetVars>>

\* app/api/routes.py: router = APIRouter()
CreateRouter ==
    /\ pc = "create_router"
    /\ router' = APIRouter
    /\ pc' = "include_hello"
    /\ UNCHANGED <<health_router, hello_router, app, handler, slotVars, greetVars>>

\* app/api/routes.py: router.include_router(hello_router)
IncludeHello ==
    /\ pc = "include_hello"
    /\ router' = include_router(router, hello_router, <<>>)
    /\ pc' = "include_health"
    /\ UNCHANGED <<health_router, hello_router, app, handler, slotVars, greetVars>>

\* app/api/routes.py: router.include_router(health_router)
IncludeHealth ==
    /\ pc = "include_health"
    /\ router' = include_router(router, health_router, <<>>)
    /\ pc' = "create_app"
    /\ UNCHANGED <<health_router, hello_router, app, handler, slotVars, greetVars>>

\* app/main.py: app = FastAPI(title=..., description=..., version=...)
CreateApp ==
    /\ pc = "create_app"
    /\ app' = FastAPI("FastAPI Lambda",
                      "FastAPI application deployed on AWS Lambda", "0.1.0")
    /\ pc' = "mount"
    /\ UNCHANGED <<health_router, hello_router, router, handler, slotVars, greetVars>>

\* app/main.py: app.include_router(router, prefix="/api")
MountRouter ==
    /\ pc = "mount"
    /\ app' = [app EXCEPT !.routes = include_router(@, router, ApiPrefix)]
    /\ pc' = "create_handler"
    /\ UNCHANGED <<health_router, hello_router, router, handler, slotVars, greetVars>>

\* app/main.py: handler = Mangum(app)
CreateHandler ==
    /\ pc = "create_handler"
    /\ handler' = "Mangum"
    /\ pc' = "serving"
    /\ UNCHANGED <<health_router, hello_router, router, app, slotVars, greetVars>>

\* ------------------------------------------------------------- serving
\* a request arrives at the adapter and takes a free slot
Receive(i, r) ==
    /\ pc = "serving"
    /\ handler = "Mangum"
    /\ stage[i] = "idle"
    /\ stage' = [stage EXCEPT ![i] = "received"]
    /\ req' = [req EXCEPT ![i] = r]
    /\ UNCHANGED <<pc, confVars, resp, greetVars>>

\* mutant: a request no route serves is left waiting
Handle_matched_only(i) ==
    /\ pc = "serving"
    /\ stage[i] = "received"
    /\ dispatch(app.routes, req[i]) \notin {"404", "405"}
    /\ resp' = [resp EXCEPT ![i] = asgi_call(app, req[i])]
    /\ stage' = [stage EXCEPT ![i] = "responded"]
    /\ UNCHANGED <<pc, confVars, req, greetVars>>

\* mutant: the response is written to a buffer every waiting request shares
Handle_broadcast(i) ==
    /\ pc = "serving"
    /\ stage[i] = "received"
    /\ resp' = [j \in Slots |->
                  IF stage[j] = "received" THEN asgi_call(app, req[i]) ELSE resp[j]]
    /\ stage' = [j \in Slots |->
                  IF stage[j] = "received" THEN "responded" ELSE stage[j]]
    /\ UNCHANGED <<pc, confVars, req, greetVars>>

\* mutant: the router is mounted again while a request is handled
Handle_remount(i) ==
    /\ pc = "serving"
    /\ stage[i] = "received"
    /\ resp' = [resp EXCEPT ![i] = asgi_call(app, req[i])]
    /\ stage' = [stage EXCEPT ![i] = "responded"]
    /\ app' = [app EXCEPT !.routes = include_router(<<>>, router, ApiPrefix)
                                      \o IF Len(@) > Len(router) THEN <<>> ELSE @]
    /\ UNCHANGED <<pc, health_router, hello_router, router, handler, req, greetVars>>

\* the application handles the request of slot i: routing and the endpoint
\* function run without any suspension point, so this is one step
Handle(i) ==
    /\ pc = "serving"
    /\ stage[i] = "received"
    /\ resp' = [resp EXCEPT ![i] = asgi_call(app, req[i])]
    /\ stage' = [stage EXCEPT ![i] = "responded"]
    /\ UNCHANGED <<pc, confVars, req, greetVars>>

\* the adapter returns the response to the caller and the slot is free again
Deliver(i) ==
    /\ pc = "serving"
    /\ stage[i] = "responded"
    /\ stage' = [stage EXCEPT ![i] = "idle"]
    /\ req' = [req EXCEPT ![i] = NoRequest]
    /\ resp' = [resp EXCEPT ![i] = NoResponse]
    /\ UNCHANGED <<pc, confVars, greetVars>>

Init ==
    /\ pc = "import_health"
    /\ health_router = <<>>
    /\ hello_router = <<>>
    /\ router = <<>>
    /\ app = NoApp
    /\ handler = "-"
    /\ stage = [i \in Slots |-> "idle"]
    /\ req = [i \in Slots |-> NoRequest]
    /\ resp = [i \in Slots |-> NoResponse]
    /\ arg = None
    /\ ret = <<>>
    /\ called = FALSE

Next ==
    \/ ImportHealth
    \/ ImportHello
    \/ CreateRouter
    \/ IncludeHello
    \/ IncludeHealth
    \/ CreateApp
    \/ MountRouter
    \/ CreateHandler
    \/ \E i \in Slots : \E r \in Requests : Receive(i, r)
    \/ \E i \in Slots : Handle(i)
    \/ \E i \in Slots : Deliver(i)

Spec == Init /\ [][Next]_vars

\* Once a request is received nothing suspends its handling, and the adapter
\* returns every response; the import runs to its end.
Fairness ==
    /\ WF_vars(ImportHealth \/ ImportHello \/ CreateRouter \/ IncludeHello
               \/ IncludeHealth \/ CreateApp \/ MountRouter \/ CreateHandler)
    /\ \A i \in Slots : WF_vars(Handle(i))
    /\ \A i \in Slots : WF_vars(Deliver(i))

FairSpec == Spec /\ Fairness

\* ------------------------------------------------ the greeting rule alone
GreetInputs == OptTexts(Chars, MaxNameLen)

GreetInit ==
    /\ pc = "import_health"
    /\ health_router = <<>>
    /\ hello_router = <<>>
    /\ router = <<>>
    /\ app = NoApp
    /\ handler = "-"
    /\ stage = [i \in Slots |-> "idle"]
    /\ req = [i \in Slots |-> NoRequest]
    /\ resp = [i \in Slots |-> NoResponse]
    /\ arg \in GreetInputs
    /\ ret = <<>>
    /\ called = FALSE

\* generate_greeting(arg) is called and returns
CallGreeting ==
    /\ ~called
    /\ ret' = generate_greeting(arg)
    /\ called' = TRUE
    /\ UNCHANGED <<pc, confVars, slotVars, arg>>

\* the caller picks the next argument
NextInput ==
    /\ called
    /\ arg' \in GreetInputs
    /\ ret' = <<>>
    /\ called' = FALSE
    /\ UNCHANGED <<pc, confVars, slotVars>>

GreetNext ==
    \/ CallGreeting
    \/ NextInput

GreetSpec == GreetInit /\ [][GreetNext]_vars

\* ================================================================ claims
IsHello(r) == r.method = "GET" /\ r.path = <<"api", "hello">>
IsHealth(r) == r.method = "GET" /\ r.path = <<"api", "health">>
Done(i) == stage[i] = "responded"

\* C1: for every non-empty name n, whitespace-only and punctuation-only
\* names included, generate_greeting(n) returns "Hello " followed by n
\* followed by "!".
C1_NonEmptyNameIsFormatted ==
    (called /\ arg.some /\ Len(arg.val) > 0)
        => ret = <<"H", "e", "l", "l", "o", " ">> \o arg.val \o <<"!">>

C1_Witness ==
    /\ called
    /\ arg = Some(<<" ", " ">>)
    /\ ret = <<"H", "e", "l", "l", "o", " ", " ", " ", "!">>

\* C2: generate_greeting returns exactly "Hello World!" when the name is
\* absent (None) and when it is the empty string.
C2_AbsentOrEmptyIsHelloWorld ==
    (called /\ (~arg.some \/ arg.val = <<>>))
        => ret = <<"H", "e", "l", "l", "o", " ", "W", "o", "r", "l", "d", "!">>

C2_Witness ==
    /\ called
    /\ arg = Some(<<>>)
    /\ ret = <<"H", "e", "l", "l", "o", " ", "W", "o", "r", "l", "d", "!">>

\* C3: a GET to /api/hello is answered with status 200 whatever the query
\* parameter name is (absent, empty, any text), and the body is
\* {"message": m} with m the greeting rule applied to that same name.
C3_HelloAlways200 ==
    \A i \in Slots :
        (Done(i) /\ IsHello(req[i]))
            => /\ resp[i].status = 200
               /\ resp[i].body = [message |-> generate_greeting(req[i].name)]

C3_Witness ==
    \E i \in Slots :
        /\ Done(i)
        /\ IsHello(req[i])
        /\ req[i].name = Some(<<>>)
        /\ resp[i] = Response(200, [message |-> HelloWorld])

\* C4: the health endpoint answers {"status": "healthy"} with status 200 on
\* every invocation, whatever input comes with the request and whatever
\* requests were handled before it.
C4_HealthAlwaysHealthy ==
    \A i \in Slots :
        (Done(i) /\ IsHealth(req[i]))
            => resp[i] = [status |-> 200, body |-> [status |-> "healthy"]]

C4_Witness ==
    \E i, j \in Slots :
        /\ i # j
        /\ Done(i) /\ IsHealth(req[i]) /\ req[i].name = Some(<<"A">>)
        /\ resp[i] = [status |-> 200, body |-> [status |-> "healthy"]]
        /\ Done(j) /\ IsHello(req[j])

\* C5: two invocations of the hello endpoint with the same name have
\* identical response bodies, whatever else is handled before or between.
C5_HelloIdempotent ==
    \A i, j \in Slots :
        (/\ Done(i) /\ IsHello(req[i])
         /\ Done(j) /\ IsHello(req[j])
         /\ req[i].name = req[j].name)
            => resp[i].body = resp[j].body

C5_Witness ==
    \E i, j \in Slots :
        /\ i # j
        /\ Done(i) /\ IsHello(req[i])
        /\ Done(j) /\ IsHello(req[j])
        /\ req[i].name = Some(<<"A">>)
        /\ req[j].name = Some(<<"A">>)
        /\ resp[i].body = resp[j].body

\* the text of a response comes from the request it answers
NamesFromOwn(r, p) ==
    "message" \in DOMAIN p.body
        => p.body.message \in {HelloWorld, HelloPrefix \o r.name.val \o Bang}

\* C6: with several requests in flight, in any interleaving, the step that
\* handles one request touches that request's slot only, and the response
\* holds no name but the request's own; requests that are equal have equal
\* responses.
C6_OwnInputOnly ==
    [][\A i \in Slots :
          (stage[i] = "received" /\ stage'[i] = "responded")
              => /\ req'[i] = req[i]
                 /\ NamesFromOwn(req[i], resp'[i])
                 /\ \A j \in Slots \ {i} :
                        /\ stage'[j] = stage[j]
                        /\ req'[j] = req[j]
                        /\ resp'[j] = resp[j]
                        /\ (stage'[j] = "responded" /\ req'[j] = req'[i])
                              => resp'[j] = resp'[i]]_vars

C6_Witness ==
    \E i, j \in Slots :
        /\ i # j
        /\ Done(i) /\ IsHello(req[i]) /\ req[i].name = Some(<<"A">>)
        /\ Done(j) /\ IsHello(req[j]) /\ req[j].name = Some(<<" ">>)
        /\ resp[i].body.message = <<"H", "e", "l", "l", "o", " ", "A", "!">>
        /\ resp[j].body.message = <<"H", "e", "l", "l", "o", " ", " ", "!">>

\* the routing table had app/api/routes.py included the two groups in the
\* other order
SwappedRoutes ==
    include_router(<<>>,
        include_router(include_router(APIRouter, health_router, <<>>),
                       hello_router, <<>>),
        ApiPrefix)

\* C7: the mounted router serves hello at GET /api/hello and health at
\* GET /api/health, and including the two groups in the other order
\* dispatches every request to the same handler.
C7_RoutingOrderImmaterial ==
    pc = "serving"
        => /\ dispatch(app.routes, Request("GET", <<"api", "hello">>, None)) = "hello"
           /\ dispatch(app.routes, Request("GET", <<"api", "health">>, None)) = "health"
           /\ \A r \in Requests :
                 dispatch(app.routes, r) = dispatch(SwappedRoutes, r)
           /\ \A i \in Slots :
                 Done(i) => resp[i] = asgi_call([app EXCEPT !.routes = SwappedRoutes], req[i])

C7_Witness ==
    /\ pc = "serving"
    /\ Len(app.routes) = 2
    /\ app.routes[1].endpoint = "hello"
    /\ SwappedRoutes[1].endpoint = "health"
    /\ \E i, j \in Slots :
          /\ Done(i) /\ IsHealth(req[i]) /\ resp[i].status = 200
          /\ Done(j) /\ IsHello(req[j]) /\ resp[j].status = 200

\* C8: once the process serves requests, no step changes the application
\* object, its mounted routes (prefix included), the routers or the adapter.
C8_AppReadOnly ==
    [][pc = "serving"
          => /\ app' = app
             /\ router' = router
             /\ hello_router' = hello_router
             /\ health_router' = health_router
             /\ handler' = handler
             /\ pc' = "serving"]_vars

C8_Witness ==
    /\ pc = "serving"
    /\ app.title = "FastAPI Lambda"
    /\ app.routes = <<[path |-> <<"api", "hello">>, methods |-> {"GET"}, endpoint |-> "hello"],
                      [path |-> <<"api", "health">>, methods |-> {"GET"}, endpoint |-> "health"]>>
    /\ \A i \in Slots : Done(i)

\* C9: every request received is eventually answered, by its handler (200)
\* or by a rejection at the boundary (404, 405); a response once produced
\* is not produced again; and every slot is free again and again, so later
\* requests can always be served.
C9_EveryRequestAnswered ==
    /\ \A i \in Slots :
          (stage[i] = "received")
              ~> (stage[i] = "responded" /\ resp[i].status \in {200, 404, 405})
    /\ \A i \in Slots : []<>(stage[i] = "idle")
    /\ [][\A i \in Slots :
             stage[i] = "responded"
                 => \/ (stage'[i] = "responded" /\ resp'[i] = resp[i])
                    \/ (stage'[i] = "idle" /\ resp'[i] = NoResponse)]_vars

C9_Witness ==
    \E i, j \in Slots :
        /\ Done(i) /\ req[i] = Request("GET", <<"hello">>, None)
        /\ resp[i].status = 404
        /\ Done(j) /\ IsHello(req[j]) /\ resp[j].status = 200

\* C10: every HelloResponse the hello endpoint produces has a message that
\* is at least 7 characters long, starts with "Hello " and ends with "!".
C10_MessageShape ==
    \A i \in Slots :
        (Done(i) /\ IsHello(req[i]))
            => /\ "message" \in DOMAIN resp[i].body
               /\ Len(resp[i].body.message) >= 7
               /\ SubSeq(resp[i].body.message, 1, 6) = <<"H", "e", "l", "l", "o", " ">>
               /\ resp[i].body.message[Len(resp[i].body.message)] = "!"

C10_Witness ==
    \E i \in Slots :
        /\ Done(i) /\ IsHello(req[i])
        /\ req[i].name = Some(<<" ">>)
        /\ resp[i].body.message = <<"H", "e", "l", "l", "o", " ", " ", "!">>

====
